---- MODULE Spec2Model ----
(***************************************************************************)
(* Browser-side state machine of the Buxxel marketplace page               *)
(* (src/unnamed/part_000): the localStorage-backed cart and the paginated, *)
(* filterable listing feed driven by loadMoreListings.                     *)
(*                                                                         *)
(* One action per event handler.  The page is single-threaded, so every    *)
(* handler runs to completion; the only suspension points are the ajax     *)
(* requests, whose callbacks are actions of their own.                     *)
(*                                                                         *)
(* Abstractions.  Prices are integers (cents), and toFixed(2) splits them  *)
(* into units and hundredths.  Item ids are integers, so the cart object's *)
(* own keys enumerate in ascending order.  The Listings Service answers    *)
(* from a fixed catalogue with one listing per page.  The JSON text kept   *)
(* in localStorage is a sequence of entries in key order.  Time, where it  *)
(* is counted, advances in ticks of 100 ms.  lastClick is a history        *)
(* variable: it records the cart click handled last and steers nothing.    *)
(***************************************************************************)
EXTENDS Integers, Sequences, FiniteSets, Bags, TLC

\* ---------------------------------------------------------------- bounds

\* The longest query of the catalogue has MaxPage pages.
MaxPage == 2

\* The user raises no feed event while MaxInFlight listing requests are out.
MaxInFlight == 2

\* The user stops adding / increasing a line at MaxQty.
MaxQty == 3

\* Most 4 s timeouts of successful signups alive at once.
MaxResetTimers == 2

\* ---------------------------------------------------------------- constants

\* The debounce delay of the search bar, 300 ms, in ticks of 100 ms.
DebounceDelay == 3

\* The tag buttons of #popular-tags-container in document order: "All" first.
TagButtons == <<"all", "t1">>

Tags == {TagButtons[n] : n \in 1..Len(TagButtons)}

SearchTexts == {"", "s"}

\* Listing ids of the catalogue: page p of every query holds listing p.
Ids == 1..MaxPage

\* Names are texts, character by character: listing 1 is called  Widget , every
\* other listing  12" Pan .
ListingName(id) ==
    IF id = 1
    THEN <<"W", "i", "d", "g", "e", "t">>
    ELSE <<"1", "2", "\"", " ", "P", "a", "n">>

ListingPrice(id) == 999 + 100 * (id - 1)

\* ---------------------------------------------------------------- state

VARIABLES
    phase,          \* "boot" | "running" | "crashed": the document.ready handler
    storage,        \* localStorage item 'buxxelCart'
    cart,           \* the cart object: id -> [name, price, quantity]
    cartDisplay,    \* what updateCart last rendered: [count, total, lines, emptyMsg]
    grid,           \* cards of #listing-grid, in document order
    noMatchMsg,     \* #listing-grid starts with the "No listings match" message
    btnDisabled,    \* $('#load-more-btn').prop('disabled')
    btnHtml,        \* $('#load-more-btn').html(): "orig" | "spinner" | "failed"
    btnHidden,      \* #load-more-btn was hidden by button.hide()
    nextPageData,   \* button.data('next-page'); 0 stands for undefined
    observing,      \* the IntersectionObserver observes #load-more-container
    activeBtns,     \* data-tag of the .tag-btn elements that have class active
    tagsReq,        \* loadPopularTags request: "idle" | "pending" | "loaded" | "failed"
    searchBar,      \* $('#search-bar').val()
    timeouts,       \* ticks left to each live timeout of the debounce closure
    inflight,       \* bag of the listing requests awaiting their callback
    lastClick,      \* history: the button click made last, [op, id, found]
    purveyorButton,     \* let purveyorButton (line 106): null, a button of the grid, or one removed from it
    originalButtonHtml, \* let originalButtonHtml (line 107)
    disabledViewBtns,   \* grid positions of the .view-purveyor-btn that are disabled
    spinnerViewBtns,    \* grid positions of the .view-purveyor-btn whose html is the spinner
    profileReqs,        \* bag of the profile requests awaiting their callbacks
    modalContent,       \* #purveyor-profile-content: [kind, user]
    modalFooterHidden,  \* the modal's .modal-footer is hidden
    modalOpen,          \* #purveyorProfileModal is shown, its backdrop over the page
    lastViewed,         \* history: data-user-id of the button clicked last, 0 for none
    signupPassword,     \* $('#signupPassword').val()
    confirmPassword,    \* $('#confirmPassword').val()
    submitDisabled,     \* the signup form's submit button is disabled
    submitHtml,         \* html of that button: "Sign Up" | "spinner"
    signupAlert,        \* #signup-alert: [text, class, shown]
    signupCalls,        \* signUp calls awaiting their result, each with its originalBtnHtml
    resetTimers,        \* live 4 s timeouts set by successful signups
    activeCategories,   \* legacy page: data-category of the .category-btn with class active
    legacySearchBar,    \* legacy page: $('#search-bar').val()
    shownCards,         \* legacy page: positions of the .listing-card that are displayed
    legacyTimeouts      \* legacy page: live timeouts of the debounce closure

\* A keyup waits for its debounce.
debouncePending == timeouts # <<>>

cartVars == <<storage, cart, cartDisplay, lastClick>>

feedVars == <<grid, noMatchMsg, btnDisabled, btnHtml, btnHidden, nextPageData,
              observing, inflight>>

\* What loadMoreListings itself reads and writes.
loadVars == <<grid, noMatchMsg, btnDisabled, btnHtml, btnHidden, nextPageData, inflight>>

filterVars == <<activeBtns, tagsReq, searchBar, timeouts>>

purveyorVars == <<purveyorButton, originalButtonHtml, disabledViewBtns, spinnerViewBtns,
                  profileReqs, modalContent, modalFooterHidden, modalOpen, lastViewed>>

signupVars == <<signupPassword, confirmPassword, submitDisabled, submitHtml, signupAlert,
                signupCalls, resetTimers>>

legacyVars == <<activeCategories, legacySearchBar, shownCards, legacyTimeouts>>

vars == <<phase, storage, cart, cartDisplay, grid, noMatchMsg, btnDisabled, btnHtml,
          btnHidden, nextPageData, observing, activeBtns, tagsReq, searchBar,
          timeouts, inflight, lastClick, purveyorButton, originalButtonHtml,
          disabledViewBtns, spinnerViewBtns, profileReqs, modalContent,
          modalFooterHidden, modalOpen, lastViewed, signupPassword, confirmPassword,
          submitDisabled, submitHtml, signupAlert, signupCalls, resetTimers,
          activeCategories, legacySearchBar, shownCards, legacyTimeouts>>

\* ---------------------------------------------------------------- JSON / storage

EmptyCart == [i \in {} |-> [name |-> <<>>, price |-> 0, quantity |-> 0]]

\* Own keys of the cart object in enumeration order (integer keys ascend).
RECURSIVE KeysFrom(_, _)
KeysFrom(c, lo) ==
    IF \A i \in DOMAIN c : i < lo THEN <<>>
    ELSE LET k == CHOOSE i \in DOMAIN c : i >= lo /\ \A j \in DOMAIN c : j >= lo => i <= j
         IN <<k>> \o KeysFrom(c, k + 1)

ObjectKeys(c) == KeysFrom(c, 0)

\* JSON.stringify(cart): one entry per own key, in key order.
JSONstringify(c) ==
    LET ks == ObjectKeys(c)
    IN [n \in 1..Len(ks) |->
           [id |-> ks[n], name |-> c[ks[n]].name, price |-> c[ks[n]].price,
            quantity |-> c[ks[n]].quantity]]

\* JSON.parse of a text that holds an object: entry n defines key text[n].id.
JSONparseObject(text) ==
    [i \in {text[n].id : n \in 1..Len(text)} |->
        LET n == CHOOSE m \in 1..Len(text) :
                     text[m].id = i /\ \A m2 \in 1..Len(text) : text[m2].id = i => m2 <= m
        IN [name |-> text[n].name, price |-> text[n].price, quantity |-> text[n].quantity]]

NoItem == [kind |-> "absent", text |-> <<>>]

NullItem == [kind |-> "null", text |-> <<>>]

CorruptItem == [kind |-> "corrupt", text |-> <<>>]

JsonItem(text) == [kind |-> "json", text |-> text]

\* Faulty variant of RestoreCart: the stored quantities are not read back (every restored
\* line restarts at quantity 1).
RestoreCart_ResetsQuantity(item) ==
    IF item.kind = "json"
    THEN [threw |-> FALSE,
          cart |-> [i \in DOMAIN JSONparseObject(item.text) |->
                       [JSONparseObject(item.text)[i] EXCEPT !.quantity = 1]]]
    ELSE [threw |-> item.kind = "corrupt", cart |-> EmptyCart]

\* JSON.parse(localStorage.getItem('buxxelCart')) || {} : getItem gives null for a
\* missing key, JSON.parse(null) is null, and a malformed text throws SyntaxError.
RestoreCart(item) ==
    CASE item.kind = "absent" -> [threw |-> FALSE, cart |-> EmptyCart]
      [] item.kind = "null" -> [threw |-> FALSE, cart |-> EmptyCart]
      [] item.kind = "corrupt" -> [threw |-> TRUE, cart |-> EmptyCart]
      [] item.kind = "json" -> [threw |-> FALSE, cart |-> JSONparseObject(item.text)]

\* ---------------------------------------------------------------- updateCart

RECURSIVE SumItems(_, _)
SumItems(c, ks) ==
    IF ks = <<>> THEN 0 ELSE c[Head(ks)].quantity + SumItems(c, Tail(ks))

\* Faulty variant of SumPrice: the total adds each line's price once, whatever its
\* quantity.
RECURSIVE SumPrice_IgnoresQuantity(_, _)
SumPrice_IgnoresQuantity(c, ks) ==
    IF ks = <<>> THEN 0
    ELSE c[Head(ks)].price + SumPrice_IgnoresQuantity(c, Tail(ks))

\* Number.prototype.toFixed(2) of an amount: the text "units.hh", kept as its two
\* numbers (the amount is a whole number of cents here).
toFixed2(cents) == [units |-> cents \div 100, hundredths |-> cents % 100]

RECURSIVE SumPrice(_, _)
SumPrice(c, ks) ==
    IF ks = <<>> THEN 0
    ELSE c[Head(ks)].price * c[Head(ks)].quantity + SumPrice(c, Tail(ks))

\* Faulty variant of updateCart: totalItems counts the lines instead of adding quantities.
updateCart_CountsLines(c) ==
    LET ks == ObjectKeys(c)
    IN [count |-> Len(ks),
        total |-> toFixed2(SumPrice(c, ks)),
        lines |-> [n \in 1..Len(ks) |->
                      [id |-> ks[n], name |-> c[ks[n]].name,
                       price |-> toFixed2(c[ks[n]].price),
                       quantity |-> c[ks[n]].quantity]],
        emptyMsg |-> (Len(ks) = 0)]

\* updateCart(): the for-in loop over the cart, then #cart-count and #cart-total.
updateCart(c) ==
    LET ks == ObjectKeys(c)
    IN [count |-> SumItems(c, ks),
        total |-> toFixed2(SumPrice(c, ks)),
        lines |-> [n \in 1..Len(ks) |->
                      [id |-> ks[n], name |-> c[ks[n]].name,
                       price |-> toFixed2(c[ks[n]].price),
                       quantity |-> c[ks[n]].quantity]],
        emptyMsg |-> (Len(ks) = 0)]

\* saveCart(): localStorage.setItem('buxxelCart', JSON.stringify(cart)).
saveCart(c) == JsonItem(JSONstringify(c))

\* No cart button has been clicked since the page was loaded.
NoClick == [op |-> "none", id |-> 0, found |-> FALSE]

\* The display of a page whose script has not run.
BlankDisplay == [count |-> 0, total |-> toFixed2(0), lines |-> <<>>, emptyMsg |-> FALSE]

\* ---------------------------------------------------------------- cart handlers

\* Faulty variant of addToCart: a line already in the cart takes the name and the
\* price of the clicked card.
addToCart_OverwritesLine(c, id, name, price) ==
    IF id \in DOMAIN c
    THEN [c EXCEPT ![id] = [name |-> name, price |-> price, quantity |-> @.quantity + 1]]
    ELSE [i \in DOMAIN c \cup {id} |->
             IF i = id THEN [name |-> name, price |-> price, quantity |-> 1] ELSE c[i]]

\* add-to-cart click: if (cart[id]) quantity++ else a new line with quantity 1.
addToCart(c, id, name, price) ==
    IF id \in DOMAIN c
    THEN [c EXCEPT ![id].quantity = @ + 1]
    ELSE [i \in DOMAIN c \cup {id} |->
             IF i = id THEN [name |-> name, price |-> price, quantity |-> 1] ELSE c[i]]

\* .increase-qty click: if (cart[id]) quantity++.
increaseQty(c, id) ==
    IF id \in DOMAIN c THEN [c EXCEPT ![id].quantity = @ + 1] ELSE c

\* Faulty variant of decreaseQty: the line is deleted only below zero (< 0 for <= 0).
decreaseQty_KeepsZero(c, id) ==
    IF id \in DOMAIN c
    THEN IF c[id].quantity - 1 < 0
         THEN [i \in DOMAIN c \ {id} |-> c[i]]
         ELSE [c EXCEPT ![id].quantity = @ - 1]
    ELSE c

\* Faulty variant of decreaseQty: a line of quantity 1 is left as it is instead of
\* being deleted.
decreaseQty_FloorsAtOne(c, id) ==
    IF id \in DOMAIN c
    THEN IF c[id].quantity - 1 <= 0
         THEN c
         ELSE [c EXCEPT ![id].quantity = @ - 1]
    ELSE c

\* .decrease-qty click: quantity--, and delete cart[id] when it is <= 0.
decreaseQty(c, id) ==
    IF id \in DOMAIN c
    THEN IF c[id].quantity - 1 <= 0
         THEN [i \in DOMAIN c \ {id} |-> c[i]]
         ELSE [c EXCEPT ![id].quantity = @ - 1]
    ELSE c

\* Faulty variant of removeItem: a line of quantity above 1 is decreased instead of
\* being deleted.
removeItem_KeepsMultiples(c, id) ==
    IF id \in DOMAIN c
    THEN IF c[id].quantity > 1
         THEN [c EXCEPT ![id].quantity = @ - 1]
         ELSE [i \in DOMAIN c \ {id} |-> c[i]]
    ELSE c

\* .remove-item click: delete cart[id].
removeItem(c, id) ==
    IF id \in DOMAIN c THEN [i \in DOMAIN c \ {id} |-> c[i]] ELSE c

\* Faulty variant of CartItemEvent: the handler forgets saveCart().
CartItemEvent_NoSave(op, id, after) ==
    /\ phase = "running"
    /\ lastClick' = [op |-> op, id |-> id, found |-> id \in DOMAIN cart]
    /\ IF id \in DOMAIN cart
       THEN /\ cart' = after
            /\ cartDisplay' = updateCart(cart')
            /\ UNCHANGED storage
       ELSE UNCHANGED <<cart, cartDisplay, storage>>
    /\ UNCHANGED <<phase, signupVars, legacyVars, purveyorVars, feedVars, filterVars>>

\* The handlers of lines 76-104 call updateCart and saveCart only inside if (cart[id]).
CartItemEvent(op, id, after) ==
    /\ phase = "running"
    /\ lastClick' = [op |-> op, id |-> id, found |-> id \in DOMAIN cart]
    /\ IF id \in DOMAIN cart
       THEN /\ cart' = after
            /\ cartDisplay' = updateCart(cart')
            /\ storage' = saveCart(cart')
       ELSE UNCHANGED <<cart, cartDisplay, storage>>
    /\ UNCHANGED <<phase, signupVars, legacyVars, purveyorVars, feedVars, filterVars>>

\* The position of the first double quote of text, Len(text) + 1 if it has none.
RECURSIVE FirstQuote(_, _)
FirstQuote(text, n) ==
    IF n > Len(text) \/ text[n] = "\"" THEN n ELSE FirstQuote(text, n + 1)

\* The value the browser gives the attribute written as  attr="${text}"  in the
\* card template: text is pasted unescaped, so the value ends at its first
\* double quote.
AttributeValue(text) == SubSeq(text, 1, FirstQuote(text, 1) - 1)

\* button.data('name') of the add-to-cart button rendered for listing id (line
\* 234 read by line 12). A value that is a numeral is handed out as a number of
\* the same digits.
dataName(id) == AttributeValue(ListingName(id))

\* parseFloat(button.data('price')) of that button (line 235 read by line 13): a
\* number printed and parsed back is the same number.
dataPrice(id) == ListingPrice(id)

\* Click on the add-to-cart button of card k of the listing grid.
AddToCart(k) ==
    /\ phase = "running"
    /\ k \in 1..Len(grid)
    /\ LET id == grid[k].id
       IN /\ id \in DOMAIN cart => cart[id].quantity < MaxQty
          /\ lastClick' = [op |-> "add", id |-> id, found |-> id \in DOMAIN cart]
          /\ cart' = addToCart(cart, id, dataName(id), dataPrice(id))
          /\ cartDisplay' = updateCart(cart')
          /\ storage' = saveCart(cart')
    /\ UNCHANGED <<phase, signupVars, legacyVars, purveyorVars, feedVars, filterVars>>

IncreaseQty(id) ==
    /\ id \in DOMAIN cart => cart[id].quantity < MaxQty
    /\ CartItemEvent("increase", id, increaseQty(cart, id))

DecreaseQty(id) == CartItemEvent("decrease", id, decreaseQty(cart, id))

RemoveItem(id) == CartItemEvent("remove", id, removeItem(cart, id))

\* ---------------------------------------------------------------- listing feed

\* The catalogue behind the Listings Service: how many pages each query has.  The
\* unfiltered feed is the longest, tag t1 fills one page, and the search text
\* matches nothing outside t1.
PagesOf(tag, search) ==
    IF search = ""
    THEN IF tag = "all" THEN MaxPage ELSE 1
    ELSE IF tag = "all" THEN 0 ELSE 1

\* The Listings Service's answer to GET /api/listings/paged?page&tag&search: the
\* requested page echoed in pagination.page, its listing if the page exists, and
\* has_next while pages follow.  Identical requests get identical answers.
ListingsResponses(req) ==
    {[listings |-> IF req.page <= PagesOf(req.tag, req.search)
                   THEN <<[id |-> req.page, tag |-> req.tag, search |-> req.search,
                           page |-> req.page]>>
                   ELSE <<>>,
      page |-> req.page,
      has_next |-> req.page < PagesOf(req.tag, req.search)]}

\* $('.tag-btn.active').data('tag') || 'all': .data() reads the first matched
\* element in document order, and gives undefined when none matches.
ActiveTagParam(btns) ==
    IF btns = {} THEN "all"
    ELSE TagButtons[CHOOSE n \in 1..Len(TagButtons) :
                        /\ TagButtons[n] \in btns
                        /\ \A m \in 1..(n - 1) : TagButtons[m] \notin btns]

\* `observer` is a const of the block of lines 273-284; line 261, inside
\* loadMoreListings, is outside that block, so evaluating it throws ReferenceError.
ObserverInScope == FALSE

\* Faulty variant of loadMoreListings: the guard of line 181 loses its "&& !isNewFilter".
loadMoreListings_GuardIgnoresNewFilter(isNewFilter, btns, search) ==
    IF btnDisabled
    THEN UNCHANGED loadVars
    ELSE LET nextPage == IF isNewFilter THEN 1 ELSE nextPageData
         IN IF nextPage = 0
            THEN UNCHANGED loadVars
            ELSE /\ grid' = IF isNewFilter THEN <<>> ELSE grid
                 /\ noMatchMsg' = IF isNewFilter THEN FALSE ELSE noMatchMsg
                 /\ nextPageData' = nextPage
                 /\ btnDisabled' = TRUE
                 /\ btnHtml' = "spinner"
                 /\ inflight' = inflight (+) SetToBag({
                        [isNewFilter |-> isNewFilter, originalHtml |-> btnHtml,
                         page |-> nextPage, tag |-> ActiveTagParam(btns),
                         search |-> search]})
                 /\ UNCHANGED btnHidden

\* loadMoreListings(isNewFilter), run with the DOM's active tag buttons and search
\* text as they are when it is called.
loadMoreListings(isNewFilter, btns, search) ==
    IF btnDisabled /\ ~isNewFilter
    THEN UNCHANGED loadVars
    ELSE LET nextPage == IF isNewFilter THEN 1 ELSE nextPageData
         IN IF nextPage = 0
            THEN UNCHANGED loadVars
            ELSE /\ grid' = IF isNewFilter THEN <<>> ELSE grid
                 /\ noMatchMsg' = IF isNewFilter THEN FALSE ELSE noMatchMsg
                 /\ nextPageData' = nextPage
                 /\ btnDisabled' = TRUE
                 /\ btnHtml' = "spinner"
                 /\ inflight' = inflight (+) SetToBag({
                        [isNewFilter |-> isNewFilter, originalHtml |-> btnHtml,
                         page |-> nextPage, tag |-> ActiveTagParam(btns),
                         search |-> search]})
                 /\ UNCHANGED btnHidden

\* Faulty variant of success: the next page is counted up from the button's data instead
\* of from pagination.page.
success_CountsFromButton(req, resp) ==
    LET appended == grid \o resp.listings
    IN /\ IF req.isNewFilter /\ Len(resp.listings) = 0
          THEN grid' = <<>> /\ noMatchMsg' = TRUE
          ELSE grid' = appended /\ UNCHANGED noMatchMsg
       /\ IF resp.has_next
          THEN /\ nextPageData' = nextPageData + 1
               /\ btnDisabled' = FALSE
               /\ btnHtml' = req.originalHtml
               /\ UNCHANGED <<btnHidden, observing>>
          ELSE /\ btnHidden' = TRUE
               /\ observing' = IF ObserverInScope THEN FALSE ELSE observing
               /\ UNCHANGED <<nextPageData, btnDisabled, btnHtml>>
       /\ inflight' = inflight (-) SetToBag({req})

\* The success callback of request req (lines 206-265) for the answer resp.
success(req, resp) ==
    LET appended == grid \o resp.listings
    IN /\ IF req.isNewFilter /\ Len(resp.listings) = 0
          THEN grid' = <<>> /\ noMatchMsg' = TRUE
          ELSE grid' = appended /\ UNCHANGED noMatchMsg
       /\ IF resp.has_next
          THEN /\ nextPageData' = resp.page + 1
               /\ btnDisabled' = FALSE
               /\ btnHtml' = req.originalHtml
               /\ UNCHANGED <<btnHidden, observing>>
          ELSE /\ btnHidden' = TRUE
               /\ observing' = IF ObserverInScope THEN FALSE ELSE observing
               /\ UNCHANGED <<nextPageData, btnDisabled, btnHtml>>
       /\ inflight' = inflight (-) SetToBag({req})

\* Faulty variant of error: the button is left disabled after a failure.
error_LeavesDisabled(req) ==
    /\ btnHtml' = "failed"
    /\ inflight' = inflight (-) SetToBag({req})
    /\ UNCHANGED <<grid, noMatchMsg, btnHidden, btnDisabled, nextPageData, observing>>

\* The error callback of request req (lines 266-268).
error(req) ==
    /\ btnDisabled' = FALSE
    /\ btnHtml' = "failed"
    /\ inflight' = inflight (-) SetToBag({req})
    /\ UNCHANGED <<grid, noMatchMsg, btnHidden, nextPageData, observing>>

FetchSuccess(req, resp) ==
    /\ phase = "running"
    /\ BagIn(req, inflight)
    /\ resp \in ListingsResponses(req)
    /\ success(req, resp)
    /\ UNCHANGED <<phase, signupVars, legacyVars, purveyorVars, cartVars, filterVars>>

FetchError(req) ==
    /\ phase = "running"
    /\ BagIn(req, inflight)
    /\ error(req)
    /\ UNCHANGED <<phase, signupVars, legacyVars, purveyorVars, cartVars, filterVars>>

\* The IntersectionObserver callback with entries[0].isIntersecting.
ScrollIntoView ==
    /\ phase = "running"
    /\ observing
    /\ BagCardinality(inflight) < MaxInFlight
    /\ loadMoreListings(FALSE, activeBtns, searchBar)
    /\ UNCHANGED <<phase, signupVars, legacyVars, purveyorVars, cartVars, filterVars, observing>>

\* Faulty variant of tagBtnClick: the class is not taken off the other buttons.
tagBtnClick_KeepsOthers(btns, t) == btns \cup {t}

\* $('.tag-btn').removeClass('active'); $(this).addClass('active') (lines 304-305).
tagBtnClick(btns, t) == (btns \ Tags) \cup {t}

\* ---------------------------------------------------------------- purveyor modal

\* The values of the variable purveyorButton.
NullButton == [ref |-> "null", card |-> 0]

CardButton(k) == [ref |-> "card", card |-> k]

DetachedButton == [ref |-> "detached", card |-> 0]

\* listing.user_id of listing id: every listing has a purveyor of its own.
ListingUser(id) == id

\* What #purveyor-profile-content shows.
NoContent == [kind |-> "none", user |-> 0]

SpinnerContent == [kind |-> "spinner", user |-> 0]

ProfileContent(user) == [kind |-> "profile", user |-> user]

ErrorContent == [kind |-> "error", user |-> 0]

\* The card a request was issued for is off the page (history: card 0).
CardGone(req) == [req EXCEPT !.card = 0]

\* $('#listing-grid').empty() takes the cards, and their buttons, off the page; a
\* button purveyorButton refers to lives on outside the document.
GridEmptied ==
    /\ disabledViewBtns' = {}
    /\ spinnerViewBtns' = {}
    /\ purveyorButton' = IF purveyorButton = NullButton THEN NullButton ELSE DetachedButton
    /\ profileReqs' = BagOfAll(CardGone, profileReqs)
    /\ UNCHANGED <<originalButtonHtml, modalContent, modalFooterHidden, modalOpen,
                   lastViewed>>

\* Click on the .view-purveyor-btn of card k (lines 110-139).  A disabled button
\* gets no click, and while the modal is shown its backdrop takes the clicks.
\* The request remembers the card it was issued for (history).
PurveyorClick(k) ==
    /\ phase = "running"
    /\ k \in 1..Len(grid)
    /\ k \notin disabledViewBtns
    /\ ~modalOpen
    /\ BagCardinality(profileReqs) < MaxInFlight
    /\ purveyorButton' = CardButton(k)
    /\ originalButtonHtml' = IF k \in spinnerViewBtns THEN "spinner" ELSE "View Purveyor"
    /\ disabledViewBtns' = disabledViewBtns \cup {k}
    /\ spinnerViewBtns' = spinnerViewBtns \cup {k}
    /\ modalContent' = SpinnerContent
    /\ modalFooterHidden' = TRUE
    /\ modalOpen' = TRUE
    /\ lastViewed' = ListingUser(grid[k].id)
    /\ profileReqs' = profileReqs (+) SetToBag({[user |-> ListingUser(grid[k].id), card |-> k]})
    /\ UNCHANGED <<phase, signupVars, legacyVars, cartVars, feedVars, filterVars>>

\* The complete callback (lines 163-169).
complete ==
    IF purveyorButton = NullButton
    THEN UNCHANGED <<purveyorButton, disabledViewBtns, spinnerViewBtns>>
    ELSE /\ purveyorButton' = NullButton
         /\ IF purveyorButton.ref = "card"
            THEN /\ disabledViewBtns' = disabledViewBtns \ {purveyorButton.card}
                 /\ spinnerViewBtns' =
                        IF originalButtonHtml = "spinner"
                        THEN spinnerViewBtns \cup {purveyorButton.card}
                        ELSE spinnerViewBtns \ {purveyorButton.card}
            ELSE UNCHANGED <<disabledViewBtns, spinnerViewBtns>>

\* The profile request req is answered: success, then complete (lines 143-158).
ProfileSuccess(req) ==
    /\ phase = "running"
    /\ BagIn(req, profileReqs)
    /\ profileReqs' = profileReqs (-) SetToBag({req})
    /\ modalContent' = ProfileContent(req.user)
    /\ modalFooterHidden' = FALSE
    /\ complete
    /\ UNCHANGED <<phase, signupVars, legacyVars, cartVars, feedVars, filterVars, originalButtonHtml, modalOpen,
                   lastViewed>>

\* The profile request req fails: error, then complete (lines 159-162).
ProfileError(req) ==
    /\ phase = "running"
    /\ BagIn(req, profileReqs)
    /\ profileReqs' = profileReqs (-) SetToBag({req})
    /\ modalContent' = ErrorContent
    /\ modalFooterHidden' = FALSE
    /\ complete
    /\ UNCHANGED <<phase, signupVars, legacyVars, cartVars, feedVars, filterVars, originalButtonHtml, modalOpen,
                   lastViewed>>

\* The user closes the modal (its close button, Escape, or a click on the backdrop).
CloseModal ==
    /\ phase = "running"
    /\ modalOpen
    /\ modalOpen' = FALSE
    /\ UNCHANGED <<phase, signupVars, legacyVars, cartVars, feedVars, filterVars, purveyorButton, originalButtonHtml,
                   disabledViewBtns, spinnerViewBtns, profileReqs, modalContent,
                   modalFooterHidden, lastViewed>>

\* ---------------------------------------------------------------- load-more button

\* Click on #load-more-btn while it is shown and enabled.  The script binds no
\* click handler to it (its only references are lines 180 and 272), and
\* loadMoreListings is local to the ready callback, out of reach of the markup:
\* nothing runs.
LoadMoreClick ==
    /\ phase = "running"
    /\ ~btnDisabled
    /\ ~btnHidden
    /\ lastClick' = [op |-> "load-more", id |-> 0, found |-> FALSE]
    /\ UNCHANGED <<phase, signupVars, legacyVars, purveyorVars, storage, cart, cartDisplay, feedVars, filterVars>>

\* Faulty variant of TagClick: the cart loses the lines whose cards the new filter
\* takes off the page.
TagClick_DropsCart(t) ==
    /\ phase = "running"
    /\ tagsReq = "loaded"
    /\ BagCardinality(inflight) < MaxInFlight
    /\ activeBtns' = tagBtnClick(activeBtns, t)
    /\ loadMoreListings(TRUE, activeBtns', searchBar)
    /\ cart' = [id \in {i \in DOMAIN cart : \E k \in 1..Len(grid') : grid'[k].id = i} |-> cart[id]]
    /\ GridEmptied
    /\ UNCHANGED <<phase, signupVars, legacyVars, storage, cartDisplay, lastClick, tagsReq, searchBar, timeouts,
                   observing>>

\* Click on the .tag-btn with data-tag t (lines 300-309).
TagClick(t) ==
    /\ phase = "running"
    /\ tagsReq = "loaded"
    /\ BagCardinality(inflight) < MaxInFlight
    /\ activeBtns' = tagBtnClick(activeBtns, t)
    /\ loadMoreListings(TRUE, activeBtns', searchBar)
    /\ GridEmptied
    /\ UNCHANGED <<phase, signupVars, legacyVars, cartVars, tagsReq, searchBar, timeouts, observing>>

\* The closure variable `timeout` names the timeout set last: clearTimeout(timeout)
\* cancels it if it is still live.
clearTimeout(ts) == IF ts = <<>> THEN <<>> ELSE SubSeq(ts, 1, Len(ts) - 1)

\* Faulty variant of debounce: the closure sets its timeout without clearing the
\* one before.
debounce_NoClear(ts) == Append(ts, DebounceDelay)

\* The function returned by debounce(func, 300), run on a keyup (lines 291-294).
debounce(ts) == Append(clearTimeout(ts), DebounceDelay)

\* keyup in #search-bar leaving the text txt: the debounce closure re-arms its timer.
SearchKeyup(txt) ==
    /\ phase = "running"
    /\ searchBar' = txt
    /\ timeouts' = debounce(timeouts)
    /\ UNCHANGED <<phase, signupVars, legacyVars, purveyorVars, cartVars, feedVars, activeBtns, tagsReq>>

\* The quiet window runs out and the debounce timeout fires (lines 293, 312-315),
\* as one step of the specifications that do not count time.
DebounceExpire ==
    /\ phase = "running"
    /\ debouncePending
    /\ BagCardinality(inflight) < MaxInFlight
    /\ timeouts' = Tail(timeouts)
    /\ loadMoreListings(TRUE, activeBtns, searchBar)
    /\ GridEmptied
    /\ UNCHANGED <<phase, signupVars, legacyVars, cartVars, activeBtns, tagsReq, searchBar, observing>>

\* 100 ms pass while a timeout is live and none is due.
Tick ==
    /\ phase = "running"
    /\ timeouts # <<>>
    /\ \A n \in 1..Len(timeouts) : timeouts[n] > 0
    /\ timeouts' = [n \in 1..Len(timeouts) |-> timeouts[n] - 1]
    /\ UNCHANGED <<phase, signupVars, legacyVars, purveyorVars, cartVars, feedVars, activeBtns, tagsReq, searchBar>>

\* A due timeout of the debounce closure runs its callback, loadMoreListings(true)
\* (lines 293, 312-315).
TimerFire ==
    /\ phase = "running"
    /\ \E n \in 1..Len(timeouts) :
          /\ timeouts[n] = 0
          /\ \A m \in 1..(n - 1) : timeouts[m] # 0
          /\ timeouts' = SubSeq(timeouts, 1, n - 1) \o SubSeq(timeouts, n + 1, Len(timeouts))
    /\ BagCardinality(inflight) < MaxInFlight
    /\ loadMoreListings(TRUE, activeBtns, searchBar)
    /\ GridEmptied
    /\ UNCHANGED <<phase, signupVars, legacyVars, cartVars, activeBtns, tagsReq, searchBar, observing>>

\* loadPopularTags success: the "All" button is appended with class active.
TagsSuccess ==
    /\ phase = "running"
    /\ tagsReq = "pending"
    /\ tagsReq' = "loaded"
    /\ activeBtns' = activeBtns \cup {"all"}
    /\ UNCHANGED <<phase, signupVars, legacyVars, purveyorVars, cartVars, feedVars, searchBar, timeouts>>

TagsError ==
    /\ phase = "running"
    /\ tagsReq = "pending"
    /\ tagsReq' = "failed"
    /\ UNCHANGED <<phase, signupVars, legacyVars, purveyorVars, cartVars, feedVars, activeBtns, searchBar, timeouts>>

\* ---------------------------------------------------------------- legacy filter

\* The .category-btn elements of the legacy page, in document order.
CategoryButtons == <<"all", "c1", "c2">>

Categories == {CategoryButtons[n] : n \in 1..Len(CategoryButtons)}

\* The .listing-card elements of the legacy page, in document order, with their
\* data-name and data-category attributes: Pan, Lid, 12 and Pot.
LegacyCards ==
    << [name |-> <<"P", "a", "n">>, category |-> "c1"],
       [name |-> <<"L", "i", "d">>, category |-> "c2"],
       [name |-> <<"1", "2">>, category |-> "c1"],
       [name |-> <<"P", "o", "t">>, category |-> "c2"] >>

\* What the user types into the legacy search bar.
LegacySearchTexts == {<<>>, <<"P">>, <<"d">>, <<"a">>, <<"1">>, <<"L", "i">>}

Digits == {"0", "1", "2", "3", "4", "5", "6", "7", "8", "9"}

\* jQuery's .data() hands out an attribute value that reads as a number as a
\* number, not as a string.
IsNumeral(text) ==
    /\ text # <<>>
    /\ \A n \in 1..Len(text) : text[n] \in Digits
    /\ Len(text) = 1 \/ text[1] # "0"

UpperToLower == ("P" :> "p") @@ ("L" :> "l")

\* String.prototype.toLowerCase.
toLowerCase(text) ==
    [n \in 1..Len(text) |->
        IF text[n] \in DOMAIN UpperToLower THEN UpperToLower[text[n]] ELSE text[n]]

\* String.prototype.includes.
includes(text, sub) ==
    \E i \in 0..(Len(text) - Len(sub)) : SubSeq(text, i + 1, i + Len(sub)) = sub

\* $('.category-btn.active').data('category'): the first active button's.
ActiveCategory(cats) ==
    IF cats = {}
    THEN "undefined"
    ELSE CategoryButtons[CHOOSE n \in 1..Len(CategoryButtons) :
                            /\ CategoryButtons[n] \in cats
                            /\ \A m \in 1..(n - 1) : CategoryButtons[m] \notin cats]

\* The test of lines 146-149 on card n.
CardMatches(n, searchTerm, activeCategory) ==
    /\ includes(toLowerCase(LegacyCards[n].name), searchTerm)
    /\ activeCategory = "all" \/ LegacyCards[n].category = activeCategory

\* The first card on which card.data('name').toLowerCase() throws a TypeError,
\* Len(LegacyCards) + 1 if there is none.
RECURSIVE FirstThrowingCard(_)
FirstThrowingCard(n) ==
    IF n > Len(LegacyCards) \/ IsNumeral(LegacyCards[n].name)
    THEN n
    ELSE FirstThrowingCard(n + 1)

\* The debounced keyup callback (lines 138-154): the cards are shown or hidden
\* one after the other; an exception ends the loop and leaves the rest as it was.
searchFilter(shown, search, cats) ==
    LET done == 1..(FirstThrowingCard(1) - 1)
    IN (shown \ done)
           \cup {n \in done : CardMatches(n, toLowerCase(search), ActiveCategory(cats))}

\* Click on the .category-btn with data-category c (lines 119-134).  The pending
\* timeout of the search bar, if any, stays.
CategoryClick(c) ==
    /\ activeCategories' = {c}
    /\ shownCards' = IF c = "all"
                     THEN 1..Len(LegacyCards)
                     ELSE {n \in 1..Len(LegacyCards) : LegacyCards[n].category = c}
    /\ legacySearchBar' = <<>>
    /\ UNCHANGED <<phase, cartVars, feedVars, filterVars, purveyorVars, signupVars,
                   legacyTimeouts>>

\* keyup in the legacy search bar, which then holds txt (lines 108-114, 137).
LegacyKeyup(txt) ==
    /\ legacySearchBar' = txt
    /\ legacyTimeouts' = debounce(legacyTimeouts)
    /\ UNCHANGED <<phase, cartVars, feedVars, filterVars, purveyorVars, signupVars,
                   activeCategories, shownCards>>

\* The quiet 300 ms are over: the timeout runs the filter.
LegacyExpire ==
    /\ legacyTimeouts # <<>>
    /\ legacyTimeouts' = Tail(legacyTimeouts)
    /\ shownCards' = searchFilter(shownCards, legacySearchBar, activeCategories)
    /\ UNCHANGED <<phase, cartVars, feedVars, filterVars, purveyorVars, signupVars,
                   activeCategories, legacySearchBar>>

\* ---------------------------------------------------------------- signup form

\* What the user types into the two password fields.
Passwords == {"", "pw1", "pw2"}

NoAlert == [text |-> "", class |-> "", shown |-> FALSE]

MismatchAlert == [text |-> "Passwords do not match.", class |-> "alert-danger", shown |-> TRUE]

ErrorAlert == [text |-> "error.message", class |-> "alert-danger", shown |-> TRUE]

SuccessAlert == [text |-> "Signup successful!", class |-> "alert-success", shown |-> TRUE]

\* The user edits #signupPassword.
TypePassword(pw) ==
    /\ phase = "running"
    /\ signupPassword' = pw
    /\ UNCHANGED <<phase, cartVars, feedVars, filterVars, purveyorVars, legacyVars,
                   confirmPassword, submitDisabled, submitHtml, signupAlert, signupCalls,
                   resetTimers>>

\* The user edits #confirmPassword.
TypeConfirm(pw) ==
    /\ phase = "running"
    /\ confirmPassword' = pw
    /\ UNCHANGED <<phase, cartVars, feedVars, filterVars, purveyorVars, legacyVars,
                   signupPassword, submitDisabled, submitHtml, signupAlert, signupCalls,
                   resetTimers>>

\* Faulty variant of SignupSubmit: the button is disabled before the passwords are
\* compared.
SignupSubmit_SpinsFirst ==
    /\ phase = "running"
    /\ ~submitDisabled
    /\ submitDisabled' = TRUE
    /\ submitHtml' = "spinner"
    /\ IF signupPassword # confirmPassword
       THEN /\ signupAlert' = MismatchAlert
            /\ UNCHANGED signupCalls
       ELSE /\ signupCalls' = Append(signupCalls, submitHtml)
            /\ UNCHANGED signupAlert
    /\ UNCHANGED <<phase, cartVars, feedVars, filterVars, purveyorVars, legacyVars,
                   signupPassword, confirmPassword, resetTimers>>

\* The signup form is submitted (lines 320-339), up to the await.  A form whose
\* submit button is disabled cannot be submitted, by a click or by Enter.  The
\* pending call keeps the handler's originalBtnHtml.
SignupSubmit ==
    /\ phase = "running"
    /\ ~submitDisabled
    /\ IF signupPassword # confirmPassword
       THEN /\ signupAlert' = MismatchAlert
            /\ UNCHANGED <<submitDisabled, submitHtml, signupCalls>>
       ELSE /\ submitDisabled' = TRUE
            /\ submitHtml' = "spinner"
            /\ signupCalls' = Append(signupCalls, submitHtml)
            /\ UNCHANGED signupAlert
    /\ UNCHANGED <<phase, cartVars, feedVars, filterVars, purveyorVars, legacyVars,
                   signupPassword, confirmPassword, resetTimers>>

\* signUp resolves with an error (failed) or without, and the handler runs on
\* from the await (lines 341-354).
SignupResult(failed) ==
    /\ phase = "running"
    /\ signupCalls # <<>>
    /\ failed \/ resetTimers < MaxResetTimers
    /\ signupCalls' = Tail(signupCalls)
    /\ IF failed
       THEN /\ signupAlert' = ErrorAlert
            /\ UNCHANGED resetTimers
       ELSE /\ signupAlert' = SuccessAlert
            /\ resetTimers' = resetTimers + 1
    /\ submitDisabled' = FALSE
    /\ submitHtml' = Head(signupCalls)
    /\ UNCHANGED <<phase, cartVars, feedVars, filterVars, purveyorVars, legacyVars,
                   signupPassword, confirmPassword>>

\* The timeout set by a successful signup fires (lines 346-350): the form is
\* reset and the alert is hidden and emptied.
ResetTimerFire ==
    /\ phase = "running"
    /\ resetTimers > 0
    /\ resetTimers' = resetTimers - 1
    /\ signupPassword' = ""
    /\ confirmPassword' = ""
    /\ signupAlert' = NoAlert
    /\ UNCHANGED <<phase, cartVars, feedVars, filterVars, purveyorVars, legacyVars,
                   submitDisabled, submitHtml, signupCalls>>

\* ---------------------------------------------------------------- page life cycle

\* The document as served, before the ready handler has run.
FreshPage ==
    /\ phase = "boot"
    /\ cart = EmptyCart
    /\ cartDisplay = BlankDisplay
    /\ grid = <<>>
    /\ noMatchMsg = FALSE
    /\ btnDisabled = FALSE
    /\ btnHtml = "orig"
    /\ btnHidden = FALSE
    /\ nextPageData = 0
    /\ observing = FALSE
    /\ activeBtns = {}
    /\ tagsReq = "idle"
    /\ searchBar = ""
    /\ timeouts = <<>>
    /\ inflight = EmptyBag
    /\ lastClick = NoClick
    /\ purveyorButton = NullButton
    /\ originalButtonHtml = ""
    /\ disabledViewBtns = {}
    /\ spinnerViewBtns = {}
    /\ profileReqs = EmptyBag
    /\ modalContent = NoContent
    /\ modalFooterHidden = FALSE
    /\ modalOpen = FALSE
    /\ lastViewed = 0
    /\ signupPassword = ""
    /\ confirmPassword = ""
    /\ submitDisabled = FALSE
    /\ submitHtml = "Sign Up"
    /\ signupAlert = NoAlert
    /\ signupCalls = <<>>
    /\ resetTimers = 0
    /\ activeCategories = {"all"}
    /\ legacySearchBar = <<>>
    /\ shownCards = 1..Len(LegacyCards)
    /\ legacyTimeouts = <<>>

Init ==
    /\ storage \in {NoItem, CorruptItem}
    /\ FreshPage

\* A snapshot saved on an earlier visit, when listing 1 had another name and price.
OldSnapshot ==
    JsonItem(<<[id |-> 1, name |-> <<"O", "l", "d">>, price |-> 899, quantity |-> 1]>>)

\* A shopper may come back to the page with such a snapshot in localStorage.
InitCart ==
    /\ storage \in {NoItem, CorruptItem, OldSnapshot}
    /\ FreshPage

\* Faulty variant of Ready: the ready handler leaves out its updateCart() call of
\* line 530.
Ready_NoRender ==
    /\ phase = "boot"
    /\ LET restored == RestoreCart(storage)
       IN IF restored.threw
          THEN /\ phase' = "crashed"
               /\ UNCHANGED <<cartVars, feedVars, filterVars, purveyorVars, signupVars, legacyVars>>
          ELSE /\ phase' = "running"
               /\ cart' = restored.cart
               /\ UNCHANGED cartDisplay
               /\ observing' = TRUE
               /\ loadMoreListings(TRUE, activeBtns, searchBar)
               /\ tagsReq' = "pending"
               /\ UNCHANGED <<storage, lastClick, activeBtns, searchBar, timeouts, purveyorVars,
                              signupVars, legacyVars>>

\* $(document).ready(function() {...}): line 3 restores the cart; when it throws,
\* nothing below it runs.  Otherwise the handlers are bound, the observer starts,
\* loadMoreListings(true) issues the first request, and updateCart and
\* loadPopularTags run (lines 272-284, 529-536).
Ready ==
    /\ phase = "boot"
    /\ LET restored == RestoreCart(storage)
       IN IF restored.threw
          THEN /\ phase' = "crashed"
               /\ UNCHANGED <<cartVars, feedVars, filterVars, purveyorVars, signupVars, legacyVars>>
          ELSE /\ phase' = "running"
               /\ cart' = restored.cart
               /\ cartDisplay' = updateCart(cart')
               /\ observing' = TRUE
               /\ loadMoreListings(TRUE, activeBtns, searchBar)
               /\ tagsReq' = "pending"
               /\ UNCHANGED <<storage, lastClick, activeBtns, searchBar, timeouts, purveyorVars,
                              signupVars, legacyVars>>

\* The user reloads the page: the document and the script's variables are gone,
\* pending callbacks never run, localStorage stays.
Reload ==
    /\ phase \in {"running", "crashed"}
    /\ phase' = "boot"
    /\ cart' = EmptyCart
    /\ cartDisplay' = BlankDisplay
    /\ grid' = <<>>
    /\ noMatchMsg' = FALSE
    /\ btnDisabled' = FALSE
    /\ btnHtml' = "orig"
    /\ btnHidden' = FALSE
    /\ nextPageData' = 0
    /\ observing' = FALSE
    /\ activeBtns' = {}
    /\ tagsReq' = "idle"
    /\ searchBar' = ""
    /\ timeouts' = <<>>
    /\ inflight' = EmptyBag
    /\ lastClick' = NoClick
    /\ purveyorButton' = NullButton
    /\ originalButtonHtml' = ""
    /\ disabledViewBtns' = {}
    /\ spinnerViewBtns' = {}
    /\ profileReqs' = EmptyBag
    /\ modalContent' = NoContent
    /\ modalFooterHidden' = FALSE
    /\ modalOpen' = FALSE
    /\ lastViewed' = 0
    /\ signupPassword' = ""
    /\ confirmPassword' = ""
    /\ submitDisabled' = FALSE
    /\ submitHtml' = "Sign Up"
    /\ signupAlert' = NoAlert
    /\ signupCalls' = <<>>
    /\ resetTimers' = 0
    /\ UNCHANGED <<storage, legacyVars>>

\* ---------------------------------------------------------------- specifications

Next ==
    \/ Ready
    \/ Reload
    \/ \E k \in 1..Len(grid) : AddToCart(k)
    \/ \E id \in Ids : IncreaseQty(id)
    \/ \E id \in Ids : DecreaseQty(id)
    \/ \E id \in Ids : RemoveItem(id)
    \/ ScrollIntoView
    \/ LoadMoreClick
    \/ \E t \in Tags : TagClick(t)
    \/ \E txt \in SearchTexts : SearchKeyup(txt)
    \/ Tick
    \/ TimerFire
    \/ TagsSuccess
    \/ TagsError
    \/ \E req \in BagToSet(inflight) : \E resp \in ListingsResponses(req) : FetchSuccess(req, resp)
    \/ \E req \in BagToSet(inflight) : FetchError(req)
    \/ \E k \in 1..Len(grid) : PurveyorClick(k)
    \/ \E req \in BagToSet(profileReqs) : ProfileSuccess(req)
    \/ \E req \in BagToSet(profileReqs) : ProfileError(req)
    \/ CloseModal
    \/ \E pw \in Passwords : TypePassword(pw)
    \/ \E pw \in Passwords : TypeConfirm(pw)
    \/ SignupSubmit
    \/ \E failed \in BOOLEAN : SignupResult(failed)
    \/ ResetTimerFire

Spec == Init /\ [][Next]_vars

\* The user shops, scrolls and clicks the load-more button but leaves the filter
\* alone.
NextCart ==
    \/ Ready
    \/ Reload
    \/ \E k \in 1..Len(grid) : AddToCart(k)
    \/ \E id \in Ids : IncreaseQty(id)
    \/ \E id \in Ids : DecreaseQty(id)
    \/ \E id \in Ids : RemoveItem(id)
    \/ ScrollIntoView
    \/ LoadMoreClick
    \/ \E req \in BagToSet(inflight) : \E resp \in ListingsResponses(req) : FetchSuccess(req, resp)
    \/ \E req \in BagToSet(inflight) : FetchError(req)

SpecCart == InitCart /\ [][NextCart]_vars

\* The user browses, filters and searches but leaves the cart alone and stays on
\* the page.  Time is not counted: DebounceExpire stands for the ticks that are
\* left to the timeout followed by its firing.
NextFeed ==
    \/ Ready
    \/ ScrollIntoView
    \/ \E t \in Tags : TagClick(t)
    \/ \E txt \in SearchTexts : SearchKeyup(txt)
    \/ DebounceExpire
    \/ TagsSuccess
    \/ TagsError
    \/ \E req \in BagToSet(inflight) : \E resp \in ListingsResponses(req) : FetchSuccess(req, resp)
    \/ \E req \in BagToSet(inflight) : FetchError(req)

SpecFeed == Init /\ [][NextFeed]_vars

\* A returning shopper, listing 1 already in the stored cart.
InitShop ==
    /\ storage = OldSnapshot
    /\ FreshPage

\* The shopper filters by tag, scrolls, and adds and removes lines, and lets the
\* feed settle before touching it again.
NextShop ==
    \/ Ready
    \/ \E k \in 1..Len(grid) : AddToCart(k)
    \/ \E id \in Ids : IncreaseQty(id)
    \/ \E id \in Ids : DecreaseQty(id)
    \/ \E id \in Ids : RemoveItem(id)
    \/ (inflight = EmptyBag /\ ScrollIntoView)
    \/ TagsSuccess
    \/ \E t \in Tags : (inflight = EmptyBag /\ TagClick(t))
    \/ \E req \in BagToSet(inflight) : \E resp \in ListingsResponses(req) : FetchSuccess(req, resp)
    \/ \E req \in BagToSet(inflight) : FetchError(req)

SpecShop == InitShop /\ [][NextShop]_vars

\* Every request loadMoreListings can issue.
Requests ==
    [isNewFilter : BOOLEAN, originalHtml : {"orig", "spinner", "failed"},
     page : 1..MaxPage, tag : Tags, search : SearchTexts]

\* Request req gets its answer: the success or the error callback runs.
FetchAnswer(req) ==
    \/ \E resp \in ListingsResponses(req) : FetchSuccess(req, resp)
    \/ FetchError(req)

\* The user filters by tag and scrolls, at any pace.
NextTags ==
    \/ Ready
    \/ ScrollIntoView
    \/ TagsSuccess
    \/ \E t \in Tags : TagClick(t)
    \/ \E req \in BagToSet(inflight) : \E resp \in ListingsResponses(req) : FetchSuccess(req, resp)
    \/ \E req \in BagToSet(inflight) : FetchError(req)

\* Every issued request is answered in the end; the user owes nothing.
SpecTagsFair ==
    /\ Init
    /\ [][NextTags]_vars
    /\ \A req \in Requests : WF_vars(FetchAnswer(req))

\* The user scrolls, filters by tag and looks at purveyors; a tag button can be
\* clicked only while the modal is closed.
NextPurveyor ==
    \/ Ready
    \/ ScrollIntoView
    \/ TagsSuccess
    \/ \E t \in Tags : (~modalOpen /\ TagClick(t))
    \/ \E req \in BagToSet(inflight) : \E resp \in ListingsResponses(req) : FetchSuccess(req, resp)
    \/ \E req \in BagToSet(inflight) : FetchError(req)
    \/ \E k \in 1..Len(grid) : PurveyorClick(k)
    \/ \E req \in BagToSet(profileReqs) : ProfileSuccess(req)
    \/ \E req \in BagToSet(profileReqs) : ProfileError(req)
    \/ CloseModal

SpecPurveyor == Init /\ [][NextPurveyor]_vars

\* The user fills in and submits the signup form.
NextSignup ==
    \/ Ready
    \/ \E pw \in Passwords : TypePassword(pw)
    \/ \E pw \in Passwords : TypeConfirm(pw)
    \/ SignupSubmit
    \/ \E failed \in BOOLEAN : SignupResult(failed)
    \/ ResetTimerFire

SpecSignup == Init /\ [][NextSignup]_vars

\* The legacy page: category buttons and the search bar filter the cards in place.
NextLegacy ==
    \/ \E c \in Categories : CategoryClick(c)
    \/ \E txt \in LegacySearchTexts : LegacyKeyup(txt)
    \/ LegacyExpire

SpecLegacy == Init /\ [][NextLegacy]_vars

\* The user types into the search bar while time is counted in ticks.
NextSearch ==
    \/ Ready
    \/ \E txt \in SearchTexts : SearchKeyup(txt)
    \/ Tick
    \/ TimerFire
    \/ \E req \in BagToSet(inflight) : \E resp \in ListingsResponses(req) : FetchSuccess(req, resp)
    \/ \E req \in BagToSet(inflight) : FetchError(req)

SpecSearch == Init /\ [][NextSearch]_vars

\* ---------------------------------------------------------------- cart properties

Running == phase = "running"

RECURSIVE QuantitySum(_, _)
QuantitySum(c, ids) ==
    IF ids = {} THEN 0
    ELSE LET i == CHOOSE j \in ids : TRUE
         IN c[i].quantity + QuantitySum(c, ids \ {i})

\* C3: after every add / increase / decrease / remove, starting from an empty cart,
\* the displayed item count (#cart-count) is the sum of the quantities of the lines
\* still in the cart, and it is never negative.
C3_CountIsSumOfQuantities ==
    Running => /\ cartDisplay.count = QuantitySum(cart, DOMAIN cart)
               /\ cartDisplay.count >= 0

\* C3 witness: two lines with different quantities are in the cart and counted.
C3_Witness ==
    /\ Running
    /\ Cardinality(DOMAIN cart) = 2
    /\ \E i, j \in DOMAIN cart : cart[i].quantity < cart[j].quantity
    /\ cartDisplay.count = 3

\* C4: every line present in the cart has quantity >= 1; a line whose quantity
\* would become 0 is deleted instead of being kept at zero.
C4_QuantityAtLeastOne ==
    Running => \A id \in DOMAIN cart : cart[id].quantity >= 1

\* C4 witness: the only line of the cart was decreased (or removed) away: the cart
\* is empty again after a mutation has been saved.
C4_Witness ==
    /\ Running
    /\ cart = EmptyCart
    /\ storage = JsonItem(<<>>)

\* C5: restore at startup yields an empty cart and raises nothing, both when the
\* key 'buxxelCart' is missing and when its content is malformed: once the ready
\* handler has run on such a storage, the page runs with an empty cart.
C5_RestoreNeverRaises ==
    (phase # "boot" /\ storage.kind \in {"absent", "corrupt"})
        => (Running /\ cart = EmptyCart /\ cartDisplay.emptyMsg)

\* C6: after every cart mutation the item stored under 'buxxelCart' is the
\* serialization of the whole in-memory cart: between handlers the stored snapshot
\* equals the cart as soon as one exists, and no line exists before a snapshot does.
C6_SnapshotIsCart ==
    Running => IF storage.kind = "json"
               THEN storage.text = JSONstringify(cart)
               ELSE cart = EmptyCart

\* C6 witness: a snapshot of a cart of two lines, one of them increased.
C6_Witness ==
    /\ Running
    /\ storage.kind = "json"
    /\ Len(storage.text) = 2
    /\ \E n \in 1..2 : storage.text[n].quantity = 2

Idle == ~btnDisabled

Loading == btnDisabled

Exhausted == btnHidden

\* loadMoreListings(false) returns at line 181 or at line 192.
LoadNextIsNoOp == btnDisabled \/ nextPageData = 0

\* The filter the page shows: the active tag and the search text, once no keystroke
\* waits for its debounce.
IsStale(req) ==
    /\ ~debouncePending
    /\ <<req.tag, req.search>> # <<ActiveTagParam(activeBtns), searchBar>>

ApplyFilter == (\E t \in Tags : TagClick(t)) \/ DebounceExpire

\* C1: a response to a request issued under a filter that is no longer the active
\* one is discarded: it changes neither the rendered listings nor next_page nor the
\* Idle / Loading / Exhausted state.
C1_StaleResponseDiscarded ==
    [][\A req \in BagToSet(inflight) : \A resp \in ListingsResponses(req) :
          (IsStale(req) /\ FetchSuccess(req, resp))
              => UNCHANGED <<grid, noMatchMsg, nextPageData, btnDisabled, btnHidden>>]_vars

\* C2: at most one listings request is in flight in every reachable state.
C2_AtMostOneInFlight == BagCardinality(inflight) <= 1

\* C8: apply_filter (a tag click or the expiry of the search debounce) clears the
\* rendered listings, resets next_page to 1 and issues a request for page 1 under
\* the filter the page then shows, whatever the state it is called in.
C8_ApplyFilterRestarts ==
    [][ApplyFilter =>
          /\ grid' = <<>>
          /\ ~noMatchMsg'
          /\ nextPageData' = 1
          /\ Loading'
          /\ inflight' = inflight (+) SetToBag({
                 [isNewFilter |-> TRUE, originalHtml |-> btnHtml, page |-> 1,
                  tag |-> ActiveTagParam(activeBtns'), search |-> searchBar']})]_vars

\* C8 witness: the filter was applied on an Exhausted controller showing two pages:
\* the button is still hidden, the grid is empty and the page-1 request for the new
\* search text is out.
C8_Witness ==
    /\ Running
    /\ Exhausted
    /\ grid = <<>>
    /\ nextPageData = 1
    /\ searchBar = "s"
    /\ ~debouncePending
    /\ \E req \in BagToSet(inflight) :
          req.page = 1 /\ req.search = "s" /\ req.originalHtml = "spinner"

\* C9: on fetch success with has_next = true the controller stores next_page =
\* response page + 1 and is Idle; with has_next = false it is Exhausted and neither
\* next_page nor the button's disabled flag is touched.
C9_SuccessTransition ==
    [][\A req \in BagToSet(inflight) : \A resp \in ListingsResponses(req) :
          FetchSuccess(req, resp) =>
              IF resp.has_next
              THEN nextPageData' = resp.page + 1 /\ Idle'
              ELSE Exhausted' /\ UNCHANGED <<nextPageData, btnDisabled>>]_vars

\* C9 witness: page 1 came with has_next = true, page 2 with has_next = false: both
\* pages are rendered, next_page is still 2 and the controller is Exhausted.
C9_Witness ==
    /\ Running
    /\ Exhausted
    /\ Loading
    /\ nextPageData = 2
    /\ inflight = EmptyBag
    /\ Len(grid) = 2
    /\ grid[1].page = 1
    /\ grid[2].page = 2

\* C10: load_next is a no-op while the controller is Loading, and a has_next = false
\* answer for the active filter leaves the controller Exhausted in a state where
\* load_next is a no-op too, in every interleaving of requests and answers.
C10_LoadNextIgnored ==
    [][/\ (ScrollIntoView /\ Loading)
            => UNCHANGED <<inflight, nextPageData, grid>>
       /\ \A req \in BagToSet(inflight) : \A resp \in ListingsResponses(req) :
            (FetchSuccess(req, resp) /\ ~resp.has_next /\ ~IsStale(req))
                => LoadNextIsNoOp']_vars

\* What loadMoreListings(false) asks the service for when the guards of lines 181
\* and 192 let it through: the page stored on the button, the tag of the active
\* tag button and the text of the search bar (lines 190, 200, 201).
LoadNextQuery ==
    [page |-> nextPageData, tag |-> ActiveTagParam(activeBtns), search |-> searchBar]

QueryOf(req) == [page |-> req.page, tag |-> req.tag, search |-> req.search]

\* C11: when a fetch fails the controller is Idle again and not made Exhausted,
\* next_page and the rendered listings are as they were, and the load_next that
\* follows asks again for the page and the filter of the request that failed.
C11_FailureIsRetryable ==
    [][\A req \in BagToSet(inflight) :
          FetchError(req) =>
              /\ Idle'
              /\ UNCHANGED <<btnHidden, nextPageData, grid, noMatchMsg>>
              /\ ~LoadNextIsNoOp'
              /\ LoadNextQuery' = QueryOf(req)]_vars

\* C12: the controller becomes Exhausted only on an answer with has_next = false
\* to a request of the filter that is active when the answer arrives; such an
\* answer to a request of an earlier filter does not hide the button.
C12_ExhaustedOnlyForActiveFilter ==
    [][(~Exhausted /\ Exhausted') =>
          \E req \in BagToSet(inflight) : \E resp \in ListingsResponses(req) :
              /\ FetchSuccess(req, resp)
              /\ ~resp.has_next
              /\ ~IsStale(req)]_vars

\* The success callback ends in an uncaught ReferenceError when it reaches line 261
\* with `observer` out of scope, which is on every answer with has_next = false.
successThrows(resp) == ~resp.has_next /\ ~ObserverInScope

\* C13: an answer with has_next = false stops the scroll trigger: the observer is
\* disconnected, so that no later scroll-into-view calls load_next, and the success
\* callback runs to its end without an error.
C13_ExhaustionStopsObserver ==
    [][\A req \in BagToSet(inflight) : \A resp \in ListingsResponses(req) :
          (FetchSuccess(req, resp) /\ ~resp.has_next)
              => ~observing' /\ ~successThrows(resp)]_vars

\* ---------------------------------------------------------------- cart store contract

\* The cart, its rendering and its stored snapshot.
cartState == <<cart, cartDisplay, storage>>

\* C14: a decrease that brings a line's quantity to 0 removes the line; on an id
\* that is not (or no longer) in the cart decrease and increase change nothing, and
\* add inserts a fresh line with quantity 1.
C14_DecreaseToZeroForgetsLine ==
    [][\A id \in Ids :
          /\ (DecreaseQty(id) /\ id \in DOMAIN cart /\ cart[id].quantity = 1)
                => id \notin DOMAIN cart'
          /\ ((DecreaseQty(id) \/ IncreaseQty(id)) /\ id \notin DOMAIN cart)
                => UNCHANGED cartState
          /\ \A k \in 1..Len(grid) :
                (AddToCart(k) /\ grid[k].id = id /\ id \notin DOMAIN cart)
                    => /\ id \in DOMAIN cart'
                       /\ cart'[id].quantity = 1]_vars

\* C14 witness: the line of listing 1 has just been decreased away while its card
\* is on the page and another line stays in the cart.
C14_Witness ==
    /\ Running
    /\ lastClick = [op |-> "decrease", id |-> 1, found |-> TRUE]
    /\ DOMAIN cart = {2}
    /\ \E k \in 1..Len(grid) : grid[k].id = 1

\* C15: add never fails; on an id already in the cart it raises the quantity by
\* exactly 1 and keeps the line's name and price, otherwise it inserts the line
\* {name, price, quantity 1} of the clicked card; every other line is untouched.
C15_AddContract ==
    [][\A k \in 1..Len(grid) :
          AddToCart(k) =>
              LET id == grid[k].id
              IN /\ Running'
                 /\ DOMAIN cart' = DOMAIN cart \cup {id}
                 /\ IF id \in DOMAIN cart
                    THEN cart'[id] = [name |-> cart[id].name, price |-> cart[id].price,
                                      quantity |-> cart[id].quantity + 1]
                    ELSE cart'[id] = [name |-> dataName(id),
                                      price |-> dataPrice(id), quantity |-> 1]
                 /\ \A j \in DOMAIN cart \ {id} : cart'[j] = cart[j]]_vars

\* C15 witness: listing 1 was in the cart under its old name and price when its
\* card, which now shows another name and price, was added again, next to a line
\* of listing 2.
C15_Witness ==
    /\ Running
    /\ lastClick = [op |-> "add", id |-> 1, found |-> TRUE]
    /\ DOMAIN cart = {1, 2}
    /\ cart[1] = [name |-> <<"O", "l", "d">>, price |-> 899, quantity |-> 2]
    /\ ListingPrice(1) # 899

\* C16: increase, decrease and remove on an id that is not in the cart change
\* neither the cart nor the stored snapshot nor what is displayed; remove on an id
\* in the cart deletes that line, whatever its quantity, and no other line.
C16_AbsentIdNoOpAndRemove ==
    [][\A id \in Ids :
          /\ ((IncreaseQty(id) \/ DecreaseQty(id) \/ RemoveItem(id))
                 /\ id \notin DOMAIN cart)
                => UNCHANGED <<cart, storage, cartDisplay>>
          /\ (RemoveItem(id) /\ id \in DOMAIN cart)
                => /\ DOMAIN cart' = DOMAIN cart \ {id}
                   /\ \A j \in DOMAIN cart' : cart'[j] = cart[j]]_vars

\* C16 witness: remove was clicked for listing 2, which is not in the cart, while
\* the cart holds listing 1 twice.
C16_Witness ==
    /\ Running
    /\ lastClick = [op |-> "remove", id |-> 2, found |-> FALSE]
    /\ DOMAIN cart = {1}
    /\ cart[1].quantity = 2
    /\ cartDisplay.count = 2

\* ---------------------------------------------------------------- filter input

\* C17: a burst of keyups, each within the 300 ms window of the one before, leads
\* to one apply_filter: the only timeout that ever fires is the one set by the
\* last keyup, it fires DebounceDelay ticks after that keyup, no other timeout
\* stays behind, and the request it issues carries the text the bar then shows.
C17_DebounceCollapsesBurst ==
    [][TimerFire =>
          /\ timeouts = <<0>>
          /\ timeouts' = <<>>
          /\ \E req \in BagToSet(inflight') :
                /\ CopiesIn(req, inflight') = CopiesIn(req, inflight) + 1
                /\ req.isNewFilter
                /\ QueryOf(req) = [page |-> 1, tag |-> ActiveTagParam(activeBtns),
                                   search |-> searchBar]]_vars

\* C17 witness: the debounce has fired for the typed text "s" while the button
\* showed its idle label: the page-1 request for "s" is out and no timeout is live.
C17_Witness ==
    /\ Running
    /\ timeouts = <<>>
    /\ searchBar = "s"
    /\ \E req \in BagToSet(inflight) : req.search = "s" /\ req.originalHtml = "orig"

\* C18: a tag click applies the filter in the same event (the page-1 request for
\* the clicked tag leaves in that step, no timeout is set), and in every state at
\* most one tag button is active, the fetches using that tag, or 'all' when none is.
C18_TagImmediateAndExclusive ==
    [][/\ Cardinality(activeBtns') <= 1
       /\ ActiveTagParam(activeBtns') \in
             IF activeBtns' = {} THEN {"all"} ELSE activeBtns'
       /\ \A t \in Tags :
             TagClick(t) =>
                 /\ activeBtns' = {t}
                 /\ UNCHANGED timeouts
                 /\ \E req \in BagToSet(inflight') :
                       /\ CopiesIn(req, inflight') = CopiesIn(req, inflight) + 1
                       /\ req.isNewFilter
                       /\ QueryOf(req) = [page |-> 1, tag |-> t, search |-> searchBar]]_vars

\* C18 witness: tag t1 was clicked after "All" had been the active button: t1 alone
\* is active and its page-1 request is out.
C18_Witness ==
    /\ Running
    /\ tagsReq = "loaded"
    /\ activeBtns = {"t1"}
    /\ searchBar = ""
    /\ \E req \in BagToSet(inflight) : req.tag = "t1" /\ req.page = 1

\* ---------------------------------------------------------------- cart totals

RECURSIVE PriceSum(_, _)
PriceSum(c, ids) ==
    IF ids = {} THEN 0
    ELSE LET i == CHOOSE j \in ids : TRUE
         IN c[i].price * c[i].quantity + PriceSum(c, ids \ {i})

\* The cart holds listing 1 alone, at 9.99, n times.
OnlyWidget(c, n) ==
    /\ DOMAIN c = {1}
    /\ c[1].price = 999
    /\ c[1].quantity = n

\* What #cart-count and #cart-total show.
Totals(d) == <<d.count, d.total.units, d.total.hundredths>>

\* C19: after every operation the displayed total is the sum over the lines of
\* price x quantity; listing 1 (9.99) added twice shows (2 items, 19.98), a decrease
\* then shows (1 item, 9.99) and a second decrease (0 items, 0.00) with an empty cart.
C19_TotalIsSumOfLines ==
    [][/\ Running' =>
            100 * cartDisplay'.total.units + cartDisplay'.total.hundredths
                = PriceSum(cart', DOMAIN cart')
       /\ (Running' /\ OnlyWidget(cart', 2)) => Totals(cartDisplay') = <<2, 19, 98>>
       /\ (DecreaseQty(1) /\ OnlyWidget(cart, 2))
            => OnlyWidget(cart', 1) /\ Totals(cartDisplay') = <<1, 9, 99>>
       /\ (DecreaseQty(1) /\ OnlyWidget(cart, 1))
            => cart' = EmptyCart /\ Totals(cartDisplay') = <<0, 0, 0>>]_vars

\* C19 witness: the card of listing 1 ("Widget", 9.99) was added a second time to
\* a cart that held nothing else: 2 items, 19.98.
C19_Witness ==
    /\ Running
    /\ lastClick = [op |-> "add", id |-> 1, found |-> TRUE]
    /\ cart = (1 :> [name |-> ListingName(1), price |-> 999, quantity |-> 2])
    /\ Totals(cartDisplay) = <<2, 19, 98>>

\* C20: once the page runs, after the initial load and after every cart operation,
\* the cart view is the rendering of the cart as it is now: one displayed line per
\* cart line with its name, price and quantity, the item count and the total of
\* the cart, and the empty-cart message exactly when the cart has no line.
C20_ViewIsCart ==
    Running =>
        /\ cartDisplay.emptyMsg <=> (DOMAIN cart = {})
        /\ Len(cartDisplay.lines) = Cardinality(DOMAIN cart)
        /\ {cartDisplay.lines[n].id : n \in 1..Len(cartDisplay.lines)} = DOMAIN cart
        /\ \A n \in 1..Len(cartDisplay.lines) :
              LET line == cartDisplay.lines[n]
              IN /\ line.name = cart[line.id].name
                 /\ 100 * line.price.units + line.price.hundredths = cart[line.id].price
                 /\ line.quantity = cart[line.id].quantity
        /\ cartDisplay.count = QuantitySum(cart, DOMAIN cart)
        /\ 100 * cartDisplay.total.units + cartDisplay.total.hundredths
              = PriceSum(cart, DOMAIN cart)

\* C20 witness: the ready handler has just run on a stored snapshot: no cart button
\* was clicked, nothing of the feed has arrived, and the restored line is displayed.
C20_Witness ==
    /\ Running
    /\ lastClick = NoClick
    /\ grid = <<>>
    /\ inflight # EmptyBag
    /\ DOMAIN cart = {1}
    /\ Len(cartDisplay.lines) = 1
    /\ cartDisplay.lines[1].name = <<"O", "l", "d">>
    /\ ~cartDisplay.emptyMsg

\* ---------------------------------------------------------------- pagination triggers

\* C21: activating the load-more button, the "Failed to load. Try again?" retry
\* included, has the effect of the button scrolling into view: when load_next is
\* let through, the request for the stored next page leaves and the controller is
\* Loading.
C21_ClickIsLoadNext ==
    [][(LoadMoreClick /\ ~LoadNextIsNoOp) =>
          /\ Loading'
          /\ \E req \in BagToSet(inflight') :
                /\ CopiesIn(req, inflight') = CopiesIn(req, inflight) + 1
                /\ QueryOf(req) = LoadNextQuery]_vars

\* ---------------------------------------------------------------- cart and feed

FeedEvent ==
    \/ \E t \in Tags : TagClick(t)
    \/ ScrollIntoView
    \/ \E req \in BagToSet(inflight) : \E resp \in ListingsResponses(req) : FetchSuccess(req, resp)
    \/ \E req \in BagToSet(inflight) : FetchError(req)

CartOperation ==
    \/ \E k \in 1..Len(grid) : AddToCart(k)
    \/ \E id \in Ids : IncreaseQty(id) \/ DecreaseQty(id) \/ RemoveItem(id)

\* C22: the cart and the feed share no state: a filter change, a load_next and a
\* fetch answer leave the cart and its stored snapshot as they are, also when they
\* take the card of a listing in the cart off the page; a cart operation leaves the
\* filter, next_page, the requests in flight and the rendered listings as they are.
C22_CartAndFeedIndependent ==
    [][/\ FeedEvent => UNCHANGED <<cart, storage, cartDisplay>>
       /\ CartOperation =>
             UNCHANGED <<activeBtns, searchBar, timeouts, nextPageData, inflight,
                         btnDisabled, btnHidden, grid, noMatchMsg>>]_vars

\* C22 witness: listing 2 was added from the feed, then the filter t1 cleared the
\* grid: neither card of the two cart lines is on the page while the t1 request
\* is out.
C22_Witness ==
    /\ Running
    /\ DOMAIN cart = {1, 2}
    /\ storage = saveCart(cart)
    /\ activeBtns = {"t1"}
    /\ grid = <<>>
    /\ inflight # EmptyBag

\* ---------------------------------------------------------------- rendered listings

\* Request req asks for the filter the page shows, no keystroke waiting.
IsCurrent(req) ==
    /\ ~debouncePending
    /\ <<req.tag, req.search>> = <<ActiveTagParam(activeBtns), searchBar>>

\* C23: when the page-1 answer for the active filter holds no listing, the feed
\* shows the "No listings match your filters." message, also when that answer
\* comes to a retry of a failed first fetch.
C23_EmptyFirstPageShowsNoMatches ==
    [][\A req \in BagToSet(inflight) : \A resp \in ListingsResponses(req) :
          (FetchSuccess(req, resp) /\ IsCurrent(req) /\ req.page = 1
             /\ resp.listings = <<>>)
              => noMatchMsg']_vars

\* C24: after a successful page-1 fetch the rendered listings are exactly the
\* listings of that answer; after a successful fetch of a later page they are the
\* listings rendered before followed by those of the answer.
C24_FirstPageReplacesLaterPagesAppend ==
    [][\A req \in BagToSet(inflight) : \A resp \in ListingsResponses(req) :
          FetchSuccess(req, resp) =>
              IF req.page = 1
              THEN grid' = resp.listings
              ELSE grid' = grid \o resp.listings]_vars

\* C25: pagination restarts after a filter change made while Exhausted: when the
\* page-1 answer for the new filter says has_next = true, the controller is Idle,
\* the load-more button is shown again, the scroll trigger is active and the next
\* load_next asks for page 2.
C25_FilterChangeLeavesExhausted ==
    [][\A req \in BagToSet(inflight) : \A resp \in ListingsResponses(req) :
          (FetchSuccess(req, resp) /\ IsCurrent(req) /\ req.page = 1 /\ resp.has_next)
              => /\ Idle'
                 /\ ~btnHidden'
                 /\ observing'
                 /\ nextPageData' = 2]_vars

\* C26: a load_next for a page after the first asks for the tag and the search
\* text of the page-1 fetch that started the pagination run, whose cards head the
\* grid; a keyup still waiting for its debounce does not change them.
C26_LoadNextKeepsRunFilter ==
    [][(/\ ScrollIntoView
        /\ inflight = EmptyBag
        /\ ~LoadNextIsNoOp
        /\ nextPageData > 1
        /\ grid # <<>>)
          => \A req \in BagToSet(inflight') :
                <<req.tag, req.search>> = <<grid[1].tag, grid[1].search>>]_vars

\* C27: whenever no fetch is in flight, the rendered listings are pages 1..k of
\* the active filter in order, each page once.
C27_RenderedIsPagesOfActiveFilter ==
    (Running /\ inflight = EmptyBag /\ ~debouncePending) =>
        \A n \in 1..Len(grid) :
            /\ grid[n].page = n
            /\ <<grid[n].tag, grid[n].search>> = <<ActiveTagParam(activeBtns), searchBar>>

\* ---------------------------------------------------------------- progress

\* load_next is let through and the button is enabled.
IdleForLoadNext == ~btnDisabled /\ nextPageData # 0

\* The button was hidden and the service has no page after the stored one for the
\* filter the page shows.
ExhaustedForActiveFilter ==
    /\ btnHidden
    /\ \A resp \in ListingsResponses(LoadNextQuery) : ~resp.has_next

Settled == IdleForLoadNext \/ ExhaustedForActiveFilter

\* C28: if every issued fetch is answered, the controller does not stay Loading
\* for ever, and once no answer is outstanding it is Idle or Exhausted for the
\* active filter.
C28_LoadingEnds ==
    /\ []((Running /\ inflight = EmptyBag) => Settled)
    /\ ((Running /\ Loading) ~> Settled)

\* C28 witness: two requests were out, the has_next = false answer came first and
\* the other one re-enabled the button: all answers are in and the controller is
\* Idle with page 2 next.
C28_Witness ==
    /\ Running
    /\ inflight = EmptyBag
    /\ btnHidden
    /\ IdleForLoadNext
    /\ nextPageData = 2

\* ---------------------------------------------------------- cards and cart

\* C29: a click on the add-to-cart button of any card of the feed, whenever the
\* card was appended and also after a filter change refilled the feed, performs
\* add with the id, the name and the price of the card's listing, renders and
\* saves the cart.
C29_AddUsesListingData ==
    [][\A k \in 1..Len(grid) :
          AddToCart(k) =>
              LET id == grid[k].id
              IN /\ cart' = addToCart(cart, id, ListingName(id), ListingPrice(id))
                 /\ cartDisplay' = updateCart(cart')
                 /\ storage' = saveCart(cart')]_vars

\* ---------------------------------------------------------- purveyor buttons

\* C30: when the profile request issued by the click on a View Purveyor button
\* completes, with success or with an error, that button is enabled again and
\* shows its label, also when another purveyor button was clicked in between.
C30_OwnButtonRestored ==
    [][\A req \in BagToSet(profileReqs) :
          ((ProfileSuccess(req) \/ ProfileError(req)) /\ req.card # 0)
              => /\ req.card \notin disabledViewBtns'
                 /\ req.card \notin spinnerViewBtns']_vars

\* C31: once no profile request is outstanding, the modal shows the answer to the
\* purveyor button clicked last, a profile of that purveyor or the error message,
\* in whatever order the answers came.
C31_ModalShowsLastClicked ==
    (Running /\ lastViewed # 0 /\ profileReqs = EmptyBag)
        => /\ modalContent.kind \in {"profile", "error"}
           /\ modalContent.kind = "profile" => modalContent.user = lastViewed

\* ---------------------------------------------------------- load-more label

\* C32: after a success callback with has_next = true the load-more button is
\* enabled and shows its original label, not the spinner and not the failure
\* text, also when the request was a retry after a failure or was issued by a
\* filter change while another request was out.
C32_IdleShowsOriginalLabel ==
    [][\A req \in BagToSet(inflight) : \A resp \in ListingsResponses(req) :
          (FetchSuccess(req, resp) /\ resp.has_next)
              => ~btnDisabled' /\ btnHtml' = "orig"]_vars

\* ---------------------------------------------------------- legacy filter

\* Card n is what the active category and the search text ask for.
Wanted(n) ==
    /\ includes(toLowerCase(LegacyCards[n].name), toLowerCase(legacySearchBar))
    /\ \/ ActiveCategory(activeCategories) = "all"
       \/ LegacyCards[n].category = ActiveCategory(activeCategories)

\* C33: on the legacy page, with no debounce pending, a card is displayed exactly
\* if its category is the active one (or the active one is 'all') and its
\* lower-cased name contains the lower-cased search text; and a category click
\* empties the search bar.
C33_ShownIffMatches ==
    /\ [](legacyTimeouts = <<>> => \A n \in 1..Len(LegacyCards) : n \in shownCards <=> Wanted(n))
    /\ [][\A c \in Categories : CategoryClick(c) => legacySearchBar' = <<>>]_vars

\* ---------------------------------------------------------- signup form

\* C34: a submit with a password that differs from its confirmation calls the
\* auth service not at all, shows 'Passwords do not match.' and leaves the submit
\* button enabled; and when a signUp call has got its result, error or not, the
\* submit button is enabled and shows its original label.
C34_SignupValidatesAndRestores ==
    [][/\ (SignupSubmit /\ signupPassword # confirmPassword)
            => /\ signupCalls' = signupCalls
               /\ signupAlert' = MismatchAlert
               /\ ~submitDisabled'
               /\ submitHtml' = "Sign Up"
       /\ \A failed \in BOOLEAN :
             SignupResult(failed)
                 => /\ ~submitDisabled'
                    /\ submitHtml' = "Sign Up"]_vars

\* C34 witness: a signup went through (its 4 s timeout is still alive), the user
\* changed the confirmation and submitted again: the mismatch is shown, nothing is
\* sent and the button is enabled under its label.
C34_Witness ==
    /\ Running
    /\ resetTimers = 1
    /\ signupPassword # confirmPassword
    /\ signupAlert = MismatchAlert
    /\ signupCalls = <<>>
    /\ ~submitDisabled
    /\ submitHtml = "Sign Up"

====
